---- MODULE Spec2Model ----
(***************************************************************************)
(* The route/synchronization layer of the Brainwave backend                *)
(* (src/server/routes.ts) as a state machine.                              *)
(*                                                                         *)
(* Every handler of class Routes is an async function.  A handler runs     *)
(* without interruption up to the concept call it awaits; the storage      *)
(* operation of that call takes effect in the same step; the handler then  *)
(* suspends and other requests may run before it resumes.  A handler is    *)
(* therefore one action per awaited concept call: the first is named after *)
(* the handler, the later ones <handler>_<call>.  A suspended handler is a *)
(* record of the variable tasks.  Sessioning calls and new ObjectId(id)    *)
(* are synchronous and belong to the step in which they are made.          *)
(*                                                                         *)
(* The concepts (Sessioning, Authing, Posting, CommentOnPost, LikeOnPost,  *)
(* Friending) and Responses are imported by routes.ts from files that are  *)
(* not part of the sources at hand; their operators below (prefixed with   *)
(* the concept's name) follow the contracts of the specification.          *)
(***************************************************************************)
EXTENDS Integers, Sequences, FiniteSets, Bags, TLC

\* ------------------------------------------------------------------ bounds
MaxUsers == 2       \* user ids ever created
MaxSessions == 2    \* browser sessions
MaxPosts == 2       \* post ids ever created
MaxComments == 1    \* comment ids ever created
MaxLikes == 2       \* like ids ever created
MaxTasks == 2       \* handlers suspended at an await at the same time
MaxRequests == 5    \* requests accepted in a run of the whole route table

Sessions == 1..MaxSessions
UserIds == 1..MaxUsers
PostIds == 1..MaxPosts
CommentIds == 1..MaxComments
LikeIds == 1..MaxLikes

\* session.user === undefined; also the session of a handler that takes none
NoUser == 0

\* an id string of a request that new ObjectId(id) does not accept
MalformedId == -1
PostIdStrings == PostIds \cup {MalformedId}
CommentIdStrings == CommentIds \cup {MalformedId}

Undefined == "undefined"         \* an optional argument that is not passed
Names == {"", "A", "B"}          \* username strings of requests
Passwords == {"", "p1"}          \* password strings of requests
Contents == {"hello", "bye"}     \* content strings of requests
OptionValues == {"red"}          \* PostOptions / CommentOptions values
DeletedUser == "DELETED_USER"    \* the formatter's name for a missing user

VARIABLES
    users,      \* Authing: user id -> [username, password]
    session,    \* Sessioning: session -> bound user id, or NoUser
    posts,      \* Posting: post id -> [author, content, options]
    comments,   \* CommentOnPost: comment id -> [item, author, content, options]
    likes,      \* LikeOnPost: like id -> [item, user]
    requests,   \* Friending: pending requests, <<from, to>>
    friends,    \* Friending: friendships, {u1, u2}
    ctr,        \* ids created so far, per collection
    tasks,      \* handlers suspended at an await
    resp,       \* the response of the handler that completed last
    budget      \* requests the server accepts from now on

vars == <<users, session, posts, comments, likes, requests, friends, ctr, tasks, resp, budget>>
db == <<users, posts, comments, likes, requests, friends, ctr>>

\* ------------------------------------------------------------ responses
Resp(op, s, status) ==
    [op |-> op, sess |-> s, status |-> status, arg |-> Undefined,
     posts |-> <<>>, names |-> <<>>, created |-> <<>>, requests |-> <<>>]

\* the response to a request that names a user (author, friend, to, from)
Named(r, name) == [r EXCEPT !.arg = name]

Task(op, pc, s, u, id, content, options) ==
    [op |-> op, pc |-> pc, sess |-> s, user |-> u, id |-> id, arg |-> Undefined,
     content |-> content, options |-> options,
     list |-> <<>>, fmt |-> <<>>, acc |-> <<>>, n |-> 0, ids |-> <<>>,
     created |-> <<>>]

\* a set of integers as the ascending sequence of its elements
RECURSIVE SortedSeq(_)
SortedSeq(S) ==
    IF S = {} THEN <<>>
    ELSE LET m == CHOOSE x \in S : \A y \in S : x <= y
         IN <<m>> \o SortedSeq(S \ {m})

\* ---------------------------------------------------------------- ObjectId
\* new ObjectId(id) throws on a string that is not an id
ObjectId(id) == IF id = MalformedId THEN "BSONError" ELSE "ok"

\* -------------------------------------------------------------- Sessioning
Sessioning_isLoggedIn(s) == IF session[s] = NoUser THEN "NotAuthenticated" ELSE "ok"
Sessioning_isLoggedOut(s) == IF session[s] # NoUser THEN "AlreadyAuthenticated" ELSE "ok"
Sessioning_getUser(s) == session[s]
Sessioning_start(s, u) == [session EXCEPT ![s] = u]
Sessioning_end(s) == [session EXCEPT ![s] = NoUser]

\* ----------------------------------------------------------------- Authing
UserByName(name) == {u \in DOMAIN users : users[u].username = name}

Authing_create(username, password) ==
    IF username = "" \/ password = "" THEN "ValidationError"
    ELSE IF UserByName(username) # {} THEN "ConflictError"
    ELSE "ok"

Authing_getUserByUsername(name) ==
    IF UserByName(name) = {} THEN "NotFound" ELSE "ok"

Authing_idOf(name) == CHOOSE u \in UserByName(name) : TRUE

Authing_authenticate(username, password) ==
    IF \E u \in UserByName(username) : users[u].password = password
    THEN "ok" ELSE "AuthenticationFailed"

Authing_getUserById(u) == IF u \in DOMAIN users THEN "ok" ELSE "NotFound"

Authing_updateUsername(u, username) ==
    IF UserByName(username) # {} THEN "ConflictError" ELSE "ok"

Authing_updatePassword(u, current, new) ==
    IF u \notin DOMAIN users THEN "NotFound"
    ELSE IF users[u].password # current THEN "NotAuthorized"
    ELSE "ok"

Authing_idToUsername(u) ==
    IF u \in DOMAIN users THEN users[u].username ELSE DeletedUser

Authing_idsToUsernames(ids) ==
    [i \in 1..Len(ids) |-> Authing_idToUsername(ids[i])]

\* without(f, k): the function f with k removed from its domain
without(f, k) == [x \in DOMAIN f \ {k} |-> f[x]]
with(f, k, v) == [x \in DOMAIN f \cup {k} |-> IF x = k THEN v ELSE f[x]]

\* ----------------------------------------------------------------- Posting
Posting_assertPostExists(id) == IF id \in DOMAIN posts THEN "ok" ELSE "NotFound"

Posting_assertAuthorIsUser(id, u) ==
    IF id \notin DOMAIN posts THEN "NotFound"
    ELSE IF posts[id].author # u THEN "NotAuthorized"
    ELSE "ok"

Posting_create(id, author, content, options) ==
    with(posts, id, [author |-> author, content |-> content, options |-> options])

Posting_update(id, content, options) ==
    IF id \notin DOMAIN posts THEN posts
    ELSE [posts EXCEPT
            ![id].content = IF content = Undefined THEN @ ELSE content,
            ![id].options = IF options = Undefined THEN @ ELSE options]

Posting_delete(id) == without(posts, id)

PostDoc(id) ==
    [id |-> id, author |-> posts[id].author, content |-> posts[id].content,
     options |-> posts[id].options]

Posting_getPosts == [i \in 1..Len(SortedSeq(DOMAIN posts)) |-> PostDoc(SortedSeq(DOMAIN posts)[i])]

Posting_getByAuthor(u) ==
    LET ids == SortedSeq({p \in DOMAIN posts : posts[p].author = u})
    IN [i \in 1..Len(ids) |-> PostDoc(ids[i])]

\* --------------------------------------------------------------- Responses
Responses_post(doc) ==
    [id |-> doc.id, author |-> Authing_idToUsername(doc.author),
     content |-> doc.content, options |-> doc.options]

Responses_posts(docs) == [i \in 1..Len(docs) |-> Responses_post(docs[i])]

Responses_comment(doc) ==
    [id |-> doc.id, item |-> doc.item, author |-> Authing_idToUsername(doc.author),
     content |-> doc.content, options |-> doc.options]

Responses_like(doc) ==
    [id |-> doc.id, item |-> doc.item, user |-> Authing_idToUsername(doc.user)]

\* ----------------------------------------------------------- CommentOnPost
CommentOnPost_assertAuthorIsUser(id, u) ==
    IF id \notin DOMAIN comments THEN "NotFound"
    ELSE IF comments[id].author # u THEN "NotAuthorized"
    ELSE "ok"

CommentOnPost_create(id, item, author, content, options) ==
    with(comments, id,
         [item |-> item, author |-> author, content |-> content, options |-> options])

CommentOnPost_update(id, content, options) ==
    IF id \notin DOMAIN comments THEN comments
    ELSE [comments EXCEPT
            ![id].content = IF content = Undefined THEN @ ELSE content,
            ![id].options = IF options = Undefined THEN @ ELSE options]

CommentOnPost_delete(id) == without(comments, id)

CommentOnPost_getByItem(item) ==
    LET ids == SortedSeq({c \in DOMAIN comments : comments[c].item = item})
    IN [i \in 1..Len(ids) |->
          [id |-> ids[i], item |-> item, author |-> comments[ids[i]].author,
           content |-> comments[ids[i]].content, options |-> comments[ids[i]].options]]

\* -------------------------------------------------------------- LikeOnPost
LikesOf(item, u) == {l \in DOMAIN likes : likes[l].item = item /\ likes[l].user = u}

\* addLike without the uniqueness of (item, user)
LikeOnPost_canAddLike_unchecked(item, u) == "ok"
LikeOnPost_canAddLike(item, u) == IF LikesOf(item, u) # {} THEN "ConflictError" ELSE "ok"
LikeOnPost_addLike(id, item, u) == with(likes, id, [item |-> item, user |-> u])

LikeOnPost_canRemoveLike(item, u) == IF LikesOf(item, u) = {} THEN "NotFound" ELSE "ok"
LikeOnPost_removeLike(item, u) == [l \in DOMAIN likes \ LikesOf(item, u) |-> likes[l]]

LikeOnPost_getNumLikes(item) == Cardinality({l \in DOMAIN likes : likes[l].item = item})

\* --------------------------------------------------------------- Friending
IsFriends(u1, u2) == {u1, u2} \in friends

Friending_canSendRequest(from, to) ==
    IF IsFriends(from, to) \/ <<from, to>> \in requests \/ <<to, from>> \in requests
    THEN "ConflictError" ELSE "ok"

Friending_hasRequest(from, to) ==
    IF <<from, to>> \in requests THEN "ok" ELSE "NotFound"

Friending_isFriends(u1, u2) == IF IsFriends(u1, u2) THEN "ok" ELSE "NotFound"

Friending_getFriends(u) ==
    SortedSeq({f \in UserIds : IsFriends(u, f)})

\* the requests from u and to u, by sender and then by recipient
Friending_getRequests(u) ==
    LET codes == SortedSeq({r[1] * (MaxUsers + 1) + r[2] :
                              r \in {q \in requests : q[1] = u \/ q[2] = u}})
    IN [i \in 1..Len(codes) |->
          [from |-> codes[i] \div (MaxUsers + 1), to |-> codes[i] % (MaxUsers + 1)]]

Responses_friendRequests(reqs) ==
    [i \in 1..Len(reqs) |->
       [from |-> Authing_idToUsername(reqs[i].from), to |-> Authing_idToUsername(reqs[i].to)]]

\* ------------------------------------------------------------------- Init
Start(k) ==
    /\ users = <<>>
    /\ session = [s \in Sessions |-> NoUser]
    /\ posts = <<>>
    /\ comments = <<>>
    /\ likes = <<>>
    /\ requests = {}
    /\ friends = {}
    /\ ctr = [user |-> 0, post |-> 0, comment |-> 0, like |-> 0]
    /\ tasks = EmptyBag
    /\ resp = Resp("none", NoUser, "ok")
    /\ budget = k

\* the server accepts a request; a suspended handler goes on
Accept == budget > 0 /\ budget' = budget - 1
GoOn == UNCHANGED budget

\* ------------------------------------------------- the handlers' plumbing
\* the handler throws: the request completes with an error, nothing is written
Fail(op, s, status) ==
    /\ resp' = Resp(op, s, status)
    /\ UNCHANGED <<db, session, tasks>>

\* the handler awaits a concept call and is suspended as task t
Suspend(t) ==
    /\ BagCardinality(tasks) < MaxTasks
    /\ tasks' = tasks (+) SetToBag({t})
    /\ UNCHANGED resp

\* the suspended handler t resumes and runs to its end
Done(t) == tasks' = tasks (-) SetToBag({t})

Running == BagToSet(tasks)
\* the suspended handlers of operation op that are to make the call pc
InFlight(op, pc) ==
    BagCardinality([t \in {x \in Running : x.op = op /\ x.pc = pc} |-> tasks[t]])
\* the suspended handler t goes on to its next await as t2
Becomes(t, t2) == tasks' = (tasks (-) SetToBag({t})) (+) SetToBag({t2})
Resumes(t, op, pc) == t \in Running /\ t.op = op /\ t.pc = pc

\* ------------------------------------------------- GET /session   (19-23)
getSessionUser(s) ==
    IF Sessioning_isLoggedIn(s) # "ok" THEN Fail("getSessionUser", s, Sessioning_isLoggedIn(s))
    ELSE LET user == Sessioning_getUser(s) IN
         /\ resp' = [Resp("getSessionUser", s, Authing_getUserById(user))
                       EXCEPT !.names = IF user \in DOMAIN users
                                        THEN <<users[user].username>> ELSE <<>>]
         /\ UNCHANGED <<db, session, tasks>>

\* ------------------------------------------------- POST /users    (36-40)
createUser(s, username, password) ==
    IF Sessioning_isLoggedOut(s) # "ok" THEN Fail("createUser", s, Sessioning_isLoggedOut(s))
    ELSE IF Authing_create(username, password) # "ok"
    THEN Fail("createUser", s, Authing_create(username, password))
    ELSE /\ ctr.user < MaxUsers
         /\ ctr' = [ctr EXCEPT !.user = @ + 1]
         /\ users' = with(users, ctr.user + 1, [username |-> username, password |-> password])
         /\ resp' = Resp("createUser", s, "ok")
         /\ UNCHANGED <<session, posts, comments, likes, requests, friends, tasks>>

\* ------------------------------------------------- PATCH /users/username (42-46)
updateUsername(s, username) ==
    IF Sessioning_isLoggedIn(s) # "ok" THEN Fail("updateUsername", s, Sessioning_isLoggedIn(s))
    ELSE LET user == Sessioning_getUser(s) IN
         IF Authing_updateUsername(user, username) # "ok"
         THEN Fail("updateUsername", s, Authing_updateUsername(user, username))
         ELSE /\ users' = IF user \in DOMAIN users
                          THEN [users EXCEPT ![user].username = username] ELSE users
              /\ resp' = Resp("updateUsername", s, "ok")
              /\ UNCHANGED <<session, posts, comments, likes, requests, friends, ctr, tasks>>

\* ------------------------------------------------- PATCH /users/password (48-52)
updatePassword(s, currentPassword, newPassword) ==
    IF Sessioning_isLoggedIn(s) # "ok" THEN Fail("updatePassword", s, Sessioning_isLoggedIn(s))
    ELSE LET user == Sessioning_getUser(s) IN
         IF Authing_updatePassword(user, currentPassword, newPassword) # "ok"
         THEN Fail("updatePassword", s, Authing_updatePassword(user, currentPassword, newPassword))
         ELSE /\ users' = [users EXCEPT ![user].password = newPassword]
              /\ resp' = Resp("updatePassword", s, "ok")
              /\ UNCHANGED <<session, posts, comments, likes, requests, friends, ctr, tasks>>

\* ------------------------------------------------- DELETE /users   (54-59)
\* deleteUser without Sessioning.end
deleteUser_keepsSession(s) ==
    IF Sessioning_isLoggedIn(s) # "ok" THEN Fail("deleteUser", s, Sessioning_isLoggedIn(s))
    ELSE LET user == Sessioning_getUser(s) IN
         /\ users' = without(users, user)
         /\ resp' = Resp("deleteUser", s, "ok")
         /\ UNCHANGED <<session, posts, comments, likes, requests, friends, ctr, tasks>>

deleteUser(s) ==
    IF Sessioning_isLoggedIn(s) # "ok" THEN Fail("deleteUser", s, Sessioning_isLoggedIn(s))
    ELSE LET user == Sessioning_getUser(s) IN
         /\ session' = Sessioning_end(s)
         /\ users' = without(users, user)
         /\ resp' = Resp("deleteUser", s, "ok")
         /\ UNCHANGED <<posts, comments, likes, requests, friends, ctr, tasks>>

\* ------------------------------------------------- POST /login     (61-66)
\* logIn looking the user up by name instead of authenticating
logIn_byUsername(s, username, password) ==
    IF Authing_getUserByUsername(username) # "ok"
    THEN Fail("logIn", s, "AuthenticationFailed")
    ELSE /\ Suspend(Task("logIn", "start", s, Authing_idOf(username), NoUser, Undefined, Undefined))
         /\ UNCHANGED <<db, session>>

logIn(s, username, password) ==
    IF Authing_authenticate(username, password) # "ok"
    THEN Fail("logIn", s, Authing_authenticate(username, password))
    ELSE /\ Suspend(Task("logIn", "start", s, Authing_idOf(username), NoUser, Undefined, Undefined))
         /\ UNCHANGED <<db, session>>

logIn_start(t) ==
    /\ Resumes(t, "logIn", "start")
    /\ Done(t)
    /\ IF Sessioning_isLoggedOut(t.sess) # "ok"
       THEN /\ resp' = Resp("logIn", t.sess, Sessioning_isLoggedOut(t.sess))
            /\ UNCHANGED session
       ELSE /\ session' = Sessioning_start(t.sess, t.user)
            /\ resp' = Resp("logIn", t.sess, "ok")
    /\ UNCHANGED db

\* ------------------------------------------------- POST /logout    (68-72)
logOut(s) ==
    IF Sessioning_isLoggedIn(s) # "ok" THEN Fail("logOut", s, Sessioning_isLoggedIn(s))
    ELSE /\ session' = Sessioning_end(s)
         /\ resp' = Resp("logOut", s, "ok")
         /\ UNCHANGED <<db, tasks>>


\* ------------------------------------------------- GET /posts      (74-92)
\* with an author the handler first awaits the user lookup, without one the
\* listing itself; an empty author string is falsy

\* getPosts listing all posts whether or not an author is named
getPosts_ignoresAuthor(author) ==
    /\ Suspend([Task("getPosts", "posts", NoUser, NoUser, NoUser, Undefined, Undefined)
                  EXCEPT !.list = Posting_getPosts, !.arg = author])
    /\ UNCHANGED <<db, session>>

getPosts(author) ==
    IF author # ""
    THEN IF Authing_getUserByUsername(author) # "ok"
         THEN /\ resp' = Named(Resp("getPosts", NoUser, Authing_getUserByUsername(author)), author)
              /\ UNCHANGED <<db, session, tasks>>
         ELSE /\ Suspend(Named(Task("getPosts", "getByAuthor", NoUser, NoUser,
                                    Authing_idOf(author), Undefined, Undefined), author))
              /\ UNCHANGED <<db, session>>
    ELSE /\ Suspend([Task("getPosts", "posts", NoUser, NoUser, NoUser, Undefined, Undefined)
                       EXCEPT !.list = Posting_getPosts, !.arg = author])
         /\ UNCHANGED <<db, session>>

getPosts_getByAuthor(t) ==
    /\ Resumes(t, "getPosts", "getByAuthor")
    /\ tasks' = (tasks (-) SetToBag({t}))
                  (+) SetToBag({[t EXCEPT !.pc = "posts", !.list = Posting_getByAuthor(t.id)]})
    /\ UNCHANGED <<db, session, resp>>

\* Responses.posts; an empty listing skips the loop and returns
getPosts_posts(t) ==
    /\ Resumes(t, "getPosts", "posts")
    /\ IF t.list = <<>>
       THEN /\ Done(t)
            /\ resp' = Named(Resp("getPosts", NoUser, "ok"), t.arg)
       ELSE /\ tasks' = (tasks (-) SetToBag({t}))
                  (+) SetToBag({[t EXCEPT !.pc = "getNumLikes", !.list = <<>>,
                                          !.fmt = Responses_posts(t.list)]})
            /\ UNCHANGED resp
    /\ UNCHANGED <<db, session>>

getPosts_getNumLikes(t) ==
    /\ Resumes(t, "getPosts", "getNumLikes")
    /\ tasks' = (tasks (-) SetToBag({t}))
                  (+) SetToBag({[t EXCEPT !.pc = "getByItem",
                                          !.n = LikeOnPost_getNumLikes(Head(t.fmt).id)]})
    /\ UNCHANGED <<db, session, resp>>

Enriched(post, numLikes, cs) ==
    [id |-> post.id, author |-> post.author, content |-> post.content,
     options |-> post.options, likes |-> numLikes, comments |-> cs]

getPosts_getByItem(t) ==
    /\ Resumes(t, "getPosts", "getByItem")
    /\ LET newPosts == Append(t.acc, Enriched(Head(t.fmt), t.n,
                                              CommentOnPost_getByItem(Head(t.fmt).id)))
       IN IF Tail(t.fmt) = <<>>
          THEN /\ Done(t)
               /\ resp' = [Resp("getPosts", NoUser, "ok") EXCEPT !.posts = newPosts,
                                                                !.arg = t.arg]
          ELSE /\ tasks' = (tasks (-) SetToBag({t}))
                  (+) SetToBag({[t EXCEPT !.pc = "getNumLikes", !.n = 0,
                                          !.fmt = Tail(t.fmt), !.acc = newPosts]})
               /\ UNCHANGED resp
    /\ UNCHANGED <<db, session>>

\* ------------------------------------------------- POST /posts     (94-99)
\* createPost reading session.user without Sessioning.getUser
\* the handler at Responses.post, holding the post that Posting.create made
Created(s, user, id, content, options) ==
    [Task("createPost", "post", s, user, id, content, options)
       EXCEPT !.created = <<[id |-> id, author |-> user, content |-> content,
                             options |-> options]>>]

createPost_readsSessionUser(s, content, options) ==
    /\ ctr.post < MaxPosts
    /\ ctr' = [ctr EXCEPT !.post = @ + 1]
    /\ posts' = Posting_create(ctr.post + 1, session[s], content, options)
    /\ Suspend(Created(s, session[s], ctr.post + 1, content, options))
    /\ UNCHANGED <<users, session, comments, likes, requests, friends>>

createPost(s, content, options) ==
    IF Sessioning_isLoggedIn(s) # "ok" THEN Fail("createPost", s, Sessioning_isLoggedIn(s))
    ELSE /\ ctr.post < MaxPosts
         /\ ctr' = [ctr EXCEPT !.post = @ + 1]
         /\ posts' = Posting_create(ctr.post + 1, Sessioning_getUser(s), content, options)
         /\ Suspend(Created(s, Sessioning_getUser(s), ctr.post + 1, content, options))
         /\ UNCHANGED <<users, session, comments, likes, requests, friends>>

createPost_post(t) ==
    /\ Resumes(t, "createPost", "post")
    /\ Done(t)
    /\ resp' = [Resp("createPost", t.sess, "ok")
                  EXCEPT !.created = <<Responses_post(t.created[1])>>]
    /\ UNCHANGED <<db, session>>

\* ------------------------------------------------- PATCH /posts/:id (101-107)
\* updatePost asserting only that the post exists, as the comment handlers do
updatePost_assertsPostExists(s, id, content, options) ==
    IF Sessioning_isLoggedIn(s) # "ok" THEN Fail("updatePost", s, Sessioning_isLoggedIn(s))
    ELSE IF ObjectId(id) # "ok" THEN Fail("updatePost", s, ObjectId(id))
    ELSE IF Posting_assertPostExists(id) # "ok"
    THEN Fail("updatePost", s, Posting_assertPostExists(id))
    ELSE /\ Suspend(Task("updatePost", "update", s, Sessioning_getUser(s), id, content, options))
         /\ UNCHANGED <<db, session>>

updatePost(s, id, content, options) ==
    IF Sessioning_isLoggedIn(s) # "ok" THEN Fail("updatePost", s, Sessioning_isLoggedIn(s))
    ELSE IF ObjectId(id) # "ok" THEN Fail("updatePost", s, ObjectId(id))
    ELSE IF Posting_assertAuthorIsUser(id, Sessioning_getUser(s)) # "ok"
    THEN Fail("updatePost", s, Posting_assertAuthorIsUser(id, Sessioning_getUser(s)))
    ELSE /\ Suspend(Task("updatePost", "update", s, Sessioning_getUser(s), id, content, options))
         /\ UNCHANGED <<db, session>>

updatePost_update(t) ==
    /\ Resumes(t, "updatePost", "update")
    /\ Done(t)
    /\ posts' = Posting_update(t.id, t.content, t.options)
    /\ resp' = Resp("updatePost", t.sess, "ok")
    /\ UNCHANGED <<users, session, comments, likes, requests, friends, ctr>>

\* ------------------------------------------------- DELETE /posts/:id (109-115)
deletePost(s, id) ==
    IF Sessioning_isLoggedIn(s) # "ok" THEN Fail("deletePost", s, Sessioning_isLoggedIn(s))
    ELSE IF ObjectId(id) # "ok" THEN Fail("deletePost", s, ObjectId(id))
    ELSE IF Posting_assertAuthorIsUser(id, Sessioning_getUser(s)) # "ok"
    THEN Fail("deletePost", s, Posting_assertAuthorIsUser(id, Sessioning_getUser(s)))
    ELSE /\ Suspend(Task("deletePost", "delete", s, Sessioning_getUser(s), id, Undefined, Undefined))
         /\ UNCHANGED <<db, session>>

deletePost_delete(t) ==
    /\ Resumes(t, "deletePost", "delete")
    /\ Done(t)
    /\ posts' = Posting_delete(t.id)
    /\ resp' = Resp("deletePost", t.sess, "ok")
    /\ UNCHANGED <<users, session, comments, likes, requests, friends, ctr>>

\* ------------------------------------------------- POST /posts/:pid/comments (126-133)
\* createCommentOnPost without the assertion on the parent post
createCommentOnPost_noAssert(s, pid, content, options) ==
    IF Sessioning_isLoggedIn(s) # "ok"
    THEN Fail("createCommentOnPost", s, Sessioning_isLoggedIn(s))
    ELSE IF ObjectId(pid) # "ok" THEN Fail("createCommentOnPost", s, ObjectId(pid))
    ELSE /\ ctr.comment + InFlight("createCommentOnPost", "create") < MaxComments
         /\ Suspend(Task("createCommentOnPost", "create", s, Sessioning_getUser(s), pid,
                         content, options))
         /\ UNCHANGED <<db, session>>

createCommentOnPost(s, pid, content, options) ==
    IF Sessioning_isLoggedIn(s) # "ok"
    THEN Fail("createCommentOnPost", s, Sessioning_isLoggedIn(s))
    ELSE IF ObjectId(pid) # "ok" THEN Fail("createCommentOnPost", s, ObjectId(pid))
    ELSE IF Posting_assertPostExists(pid) # "ok"
    THEN Fail("createCommentOnPost", s, Posting_assertPostExists(pid))
    ELSE /\ ctr.comment + InFlight("createCommentOnPost", "create") < MaxComments
         /\ Suspend(Task("createCommentOnPost", "create", s, Sessioning_getUser(s), pid,
                         content, options))
         /\ UNCHANGED <<db, session>>

\* the create made conditional on the parent post, in one storage operation
\* the handler at Responses.comment, holding the comment that was made
Commented(t, id) ==
    [t EXCEPT !.pc = "comment",
              !.created = <<[id |-> id, item |-> t.id, author |-> t.user,
                             content |-> t.content, options |-> t.options]>>]

createCommentOnPost_createIfPostExists(t) ==
    /\ Resumes(t, "createCommentOnPost", "create")
    /\ IF Posting_assertPostExists(t.id) # "ok"
       THEN /\ Done(t)
            /\ resp' = Resp("createCommentOnPost", t.sess, Posting_assertPostExists(t.id))
            /\ UNCHANGED <<comments, ctr>>
       ELSE /\ ctr' = [ctr EXCEPT !.comment = @ + 1]
            /\ comments' = CommentOnPost_create(ctr.comment + 1, t.id, t.user, t.content, t.options)
            /\ Becomes(t, Commented(t, ctr.comment + 1))
            /\ UNCHANGED resp
    /\ UNCHANGED <<users, session, posts, likes, requests, friends>>

createCommentOnPost_create(t) ==
    /\ Resumes(t, "createCommentOnPost", "create")
    /\ ctr' = [ctr EXCEPT !.comment = @ + 1]
    /\ comments' = CommentOnPost_create(ctr.comment + 1, t.id, t.user, t.content, t.options)
    /\ Becomes(t, Commented(t, ctr.comment + 1))
    /\ UNCHANGED <<users, session, posts, likes, requests, friends, resp>>

createCommentOnPost_comment(t) ==
    /\ Resumes(t, "createCommentOnPost", "comment")
    /\ Done(t)
    /\ resp' = [Resp("createCommentOnPost", t.sess, "ok")
                  EXCEPT !.created = <<Responses_comment(t.created[1])>>]
    /\ UNCHANGED <<db, session>>

\* ------------------------------------------------- PATCH /posts/:pid/comments/:id (134-140)
updateCommentOnPost(s, id, content, options) ==
    IF Sessioning_isLoggedIn(s) # "ok"
    THEN Fail("updateCommentOnPost", s, Sessioning_isLoggedIn(s))
    ELSE IF ObjectId(id) # "ok" THEN Fail("updateCommentOnPost", s, ObjectId(id))
    ELSE IF CommentOnPost_assertAuthorIsUser(id, Sessioning_getUser(s)) # "ok"
    THEN Fail("updateCommentOnPost", s, CommentOnPost_assertAuthorIsUser(id, Sessioning_getUser(s)))
    ELSE /\ Suspend(Task("updateCommentOnPost", "update", s, Sessioning_getUser(s), id,
                         content, options))
         /\ UNCHANGED <<db, session>>

updateCommentOnPost_update(t) ==
    /\ Resumes(t, "updateCommentOnPost", "update")
    /\ Done(t)
    /\ comments' = CommentOnPost_update(t.id, t.content, t.options)
    /\ resp' = Resp("updateCommentOnPost", t.sess, "ok")
    /\ UNCHANGED <<users, session, posts, likes, requests, friends, ctr>>

\* ------------------------------------------------- DELETE /posts/:pid/comments/:id (142-148)
deleteCommentOnPost(s, id) ==
    IF Sessioning_isLoggedIn(s) # "ok"
    THEN Fail("deleteCommentOnPost", s, Sessioning_isLoggedIn(s))
    ELSE IF ObjectId(id) # "ok" THEN Fail("deleteCommentOnPost", s, ObjectId(id))
    ELSE IF CommentOnPost_assertAuthorIsUser(id, Sessioning_getUser(s)) # "ok"
    THEN Fail("deleteCommentOnPost", s, CommentOnPost_assertAuthorIsUser(id, Sessioning_getUser(s)))
    ELSE /\ Suspend(Task("deleteCommentOnPost", "delete", s, Sessioning_getUser(s), id,
                         Undefined, Undefined))
         /\ UNCHANGED <<db, session>>

deleteCommentOnPost_delete(t) ==
    /\ Resumes(t, "deleteCommentOnPost", "delete")
    /\ Done(t)
    /\ comments' = CommentOnPost_delete(t.id)
    /\ resp' = Resp("deleteCommentOnPost", t.sess, "ok")
    /\ UNCHANGED <<users, session, posts, likes, requests, friends, ctr>>

\* ------------------------------------------------- POST /posts/:pid/likes (161-168)
addLikeOnPost(s, pid) ==
    IF Sessioning_isLoggedIn(s) # "ok" THEN Fail("addLikeOnPost", s, Sessioning_isLoggedIn(s))
    ELSE IF ObjectId(pid) # "ok" THEN Fail("addLikeOnPost", s, ObjectId(pid))
    ELSE IF Posting_assertPostExists(pid) # "ok"
    THEN Fail("addLikeOnPost", s, Posting_assertPostExists(pid))
    ELSE /\ ctr.like + InFlight("addLikeOnPost", "addLike") < MaxLikes
         /\ Suspend(Task("addLikeOnPost", "addLike", s, Sessioning_getUser(s), pid,
                         Undefined, Undefined))
         /\ UNCHANGED <<db, session>>

\* the handler at Responses.like, holding the like that was made
Liked(t, id) ==
    [t EXCEPT !.pc = "like", !.created = <<[id |-> id, item |-> t.id, user |-> t.user]>>]

addLikeOnPost_addLike(t) ==
    /\ Resumes(t, "addLikeOnPost", "addLike")
    /\ IF LikeOnPost_canAddLike(t.id, t.user) # "ok"
       THEN /\ Done(t)
            /\ resp' = Resp("addLikeOnPost", t.sess, LikeOnPost_canAddLike(t.id, t.user))
            /\ UNCHANGED <<likes, ctr>>
       ELSE /\ ctr' = [ctr EXCEPT !.like = @ + 1]
            /\ likes' = LikeOnPost_addLike(ctr.like + 1, t.id, t.user)
            /\ Becomes(t, Liked(t, ctr.like + 1))
            /\ UNCHANGED resp
    /\ UNCHANGED <<users, session, posts, comments, requests, friends>>

addLikeOnPost_like(t) ==
    /\ Resumes(t, "addLikeOnPost", "like")
    /\ Done(t)
    /\ resp' = [Resp("addLikeOnPost", t.sess, "ok")
                  EXCEPT !.created = <<Responses_like(t.created[1])>>]
    /\ UNCHANGED <<db, session>>

\* ------------------------------------------------- DELETE /posts/:pid/likes (170-176)
removeLikeOnPost(s, pid) ==
    IF Sessioning_isLoggedIn(s) # "ok" THEN Fail("removeLikeOnPost", s, Sessioning_isLoggedIn(s))
    ELSE IF ObjectId(pid) # "ok" THEN Fail("removeLikeOnPost", s, ObjectId(pid))
    ELSE IF Posting_assertPostExists(pid) # "ok"
    THEN Fail("removeLikeOnPost", s, Posting_assertPostExists(pid))
    ELSE /\ Suspend(Task("removeLikeOnPost", "removeLike", s, Sessioning_getUser(s), pid,
                         Undefined, Undefined))
         /\ UNCHANGED <<db, session>>

removeLikeOnPost_removeLike(t) ==
    /\ Resumes(t, "removeLikeOnPost", "removeLike")
    /\ Done(t)
    /\ IF LikeOnPost_canRemoveLike(t.id, t.user) # "ok"
       THEN /\ resp' = Resp("removeLikeOnPost", t.sess, LikeOnPost_canRemoveLike(t.id, t.user))
            /\ UNCHANGED likes
       ELSE /\ likes' = LikeOnPost_removeLike(t.id, t.user)
            /\ resp' = Resp("removeLikeOnPost", t.sess, "ok")
    /\ UNCHANGED <<users, session, posts, comments, requests, friends, ctr>>


\* ------------------------------------------------- GET /friends    (179-183)
getFriends(s) ==
    IF Sessioning_isLoggedIn(s) # "ok" THEN Fail("getFriends", s, Sessioning_isLoggedIn(s))
    ELSE /\ Suspend([Task("getFriends", "idsToUsernames", s, Sessioning_getUser(s), NoUser,
                          Undefined, Undefined)
                       EXCEPT !.ids = Friending_getFriends(Sessioning_getUser(s))])
         /\ UNCHANGED <<db, session>>

getFriends_idsToUsernames(t) ==
    /\ Resumes(t, "getFriends", "idsToUsernames")
    /\ Done(t)
    /\ resp' = [Resp("getFriends", t.sess, "ok") EXCEPT !.names = Authing_idsToUsernames(t.ids)]
    /\ UNCHANGED <<db, session>>

\* ------------------------------------------------- GET /friend/requests (192-196)
getRequests(s) ==
    IF Sessioning_isLoggedIn(s) # "ok" THEN Fail("getRequests", s, Sessioning_isLoggedIn(s))
    ELSE /\ Suspend([Task("getRequests", "friendRequests", s, Sessioning_getUser(s), NoUser,
                          Undefined, Undefined)
                       EXCEPT !.list = Friending_getRequests(Sessioning_getUser(s))])
         /\ UNCHANGED <<db, session>>

getRequests_friendRequests(t) ==
    /\ Resumes(t, "getRequests", "friendRequests")
    /\ Done(t)
    /\ resp' = [Resp("getRequests", t.sess, "ok")
                  EXCEPT !.requests = Responses_friendRequests(t.list)]
    /\ UNCHANGED <<db, session>>

\* the first half of the five friending handlers: the caller from the session,
\* then the awaited lookup of the other user by name
Lookup(op, pc, s, name) ==
    IF Sessioning_isLoggedIn(s) # "ok"
    THEN /\ resp' = Named(Resp(op, s, Sessioning_isLoggedIn(s)), name)
         /\ UNCHANGED <<db, session, tasks>>
    ELSE IF Authing_getUserByUsername(name) # "ok"
    THEN /\ resp' = Named(Resp(op, s, Authing_getUserByUsername(name)), name)
         /\ UNCHANGED <<db, session, tasks>>
    ELSE /\ Suspend(Named(Task(op, pc, s, Sessioning_getUser(s), Authing_idOf(name),
                               Undefined, Undefined), name))
         /\ UNCHANGED <<db, session>>

\* the second half: the friending call, which throws (status) or writes
Friending_call(t, status, newRequests, newFriends) ==
    /\ Done(t)
    /\ resp' = Named(Resp(t.op, t.sess, status), t.arg)
    /\ IF status # "ok"
       THEN UNCHANGED <<requests, friends>>
       ELSE requests' = newRequests /\ friends' = newFriends
    /\ UNCHANGED <<users, session, posts, comments, likes, ctr>>

\* ------------------------------------------------- DELETE /friends/:friend (185-190)
removeFriend(s, friend) == Lookup("removeFriend", "removeFriend", s, friend)

removeFriend_removeFriend(t) ==
    /\ Resumes(t, "removeFriend", "removeFriend")
    /\ Friending_call(t, Friending_isFriends(t.user, t.id), requests, friends \ {{t.user, t.id}})

\* ------------------------------------------------- POST /friend/requests/:to (198-203)
sendFriendRequest(s, to) == Lookup("sendFriendRequest", "sendRequest", s, to)

sendFriendRequest_sendRequest(t) ==
    /\ Resumes(t, "sendFriendRequest", "sendRequest")
    /\ Friending_call(t, Friending_canSendRequest(t.user, t.id),
                      requests \cup {<<t.user, t.id>>}, friends)

\* ------------------------------------------------- DELETE /friend/requests/:to (205-210)
removeFriendRequest(s, to) == Lookup("removeFriendRequest", "removeRequest", s, to)

removeFriendRequest_removeRequest(t) ==
    /\ Resumes(t, "removeFriendRequest", "removeRequest")
    /\ Friending_call(t, Friending_hasRequest(t.user, t.id),
                      requests \ {<<t.user, t.id>>}, friends)

\* ------------------------------------------------- PUT /friend/accept/:from (212-217)
acceptFriendRequest(s, from) == Lookup("acceptFriendRequest", "acceptRequest", s, from)

\* acceptFriendRequest with the two ids in the order of removeRequest
acceptFriendRequest_swapped(t) ==
    /\ Resumes(t, "acceptFriendRequest", "acceptRequest")
    /\ Friending_call(t, Friending_hasRequest(t.user, t.id),
                      requests \ {<<t.user, t.id>>}, friends \cup {{t.id, t.user}})

acceptFriendRequest_acceptRequest(t) ==
    /\ Resumes(t, "acceptFriendRequest", "acceptRequest")
    /\ Friending_call(t, Friending_hasRequest(t.id, t.user),
                      requests \ {<<t.id, t.user>>}, friends \cup {{t.id, t.user}})

\* ------------------------------------------------- PUT /friend/reject/:from (219-224)
rejectFriendRequest(s, from) == Lookup("rejectFriendRequest", "rejectRequest", s, from)

\* rejectFriendRequest calling acceptRequest, the call of the handler above it
rejectFriendRequest_callsAccept(t) ==
    /\ Resumes(t, "rejectFriendRequest", "rejectRequest")
    /\ Friending_call(t, Friending_hasRequest(t.id, t.user),
                      requests \ {<<t.id, t.user>>}, friends \cup {{t.id, t.user}})

rejectFriendRequest_rejectRequest(t) ==
    /\ Resumes(t, "rejectFriendRequest", "rejectRequest")
    /\ Friending_call(t, Friending_hasRequest(t.id, t.user),
                      requests \ {<<t.id, t.user>>}, friends)

\* ------------------------------------------------------------ the requests
\* The server accepts a request, which enters a handler (its first step) with
\* arguments drawn from the sets given; a suspended handler resumes at its
\* next await.
Optional(S) == S \cup {Undefined}

AccountsEntry(NN, PP) ==
    \/ \E s \in Sessions, n \in NN, p \in PP : Accept /\ createUser(s, n, p)
    \/ \E s \in Sessions, n \in NN, p \in PP : Accept /\ logIn(s, n, p)
    \/ \E s \in Sessions : Accept /\ logOut(s)
    \/ \E s \in Sessions : Accept /\ deleteUser(s)

AccountsResume == \E t \in Running : GoOn /\ logIn_start(t)

ProfileEntry(NN, PP) ==
    \/ \E s \in Sessions : Accept /\ getSessionUser(s)
    \/ \E s \in Sessions, n \in NN : Accept /\ updateUsername(s, n)
    \/ \E s \in Sessions, p \in PP, q \in PP : Accept /\ updatePassword(s, p, q)

ListingEntry(NN) == \E n \in NN : Accept /\ getPosts(n)

ListingResume ==
    \/ \E t \in Running : GoOn /\ getPosts_getByAuthor(t)
    \/ \E t \in Running : GoOn /\ getPosts_posts(t)
    \/ \E t \in Running : GoOn /\ getPosts_getNumLikes(t)
    \/ \E t \in Running : GoOn /\ getPosts_getByItem(t)

PostsEntry(CC, OO) ==
    \/ \E s \in Sessions, c \in CC, o \in Optional(OO) : Accept /\ createPost(s, c, o)
    \/ \E s \in Sessions, id \in PostIdStrings, c \in Optional(CC), o \in Optional(OO) :
          Accept /\ updatePost(s, id, c, o)
    \/ \E s \in Sessions, id \in PostIdStrings : Accept /\ deletePost(s, id)

PostsResume ==
    \/ \E t \in Running : GoOn /\ createPost_post(t)
    \/ \E t \in Running : GoOn /\ updatePost_update(t)
    \/ \E t \in Running : GoOn /\ deletePost_delete(t)

CommentsEntry(CC, OO) ==
    \/ \E s \in Sessions, id \in PostIdStrings, c \in CC, o \in Optional(OO) :
          Accept /\ createCommentOnPost(s, id, c, o)
    \/ \E s \in Sessions, id \in CommentIdStrings, c \in Optional(CC), o \in Optional(OO) :
          Accept /\ updateCommentOnPost(s, id, c, o)
    \/ \E s \in Sessions, id \in CommentIdStrings : Accept /\ deleteCommentOnPost(s, id)

CommentsResume ==
    \/ \E t \in Running : GoOn /\ createCommentOnPost_create(t)
    \/ \E t \in Running : GoOn /\ createCommentOnPost_comment(t)
    \/ \E t \in Running : GoOn /\ updateCommentOnPost_update(t)
    \/ \E t \in Running : GoOn /\ deleteCommentOnPost_delete(t)

LikesEntry ==
    \/ \E s \in Sessions, id \in PostIdStrings : Accept /\ addLikeOnPost(s, id)
    \/ \E s \in Sessions, id \in PostIdStrings : Accept /\ removeLikeOnPost(s, id)

LikesResume ==
    \/ \E t \in Running : GoOn /\ addLikeOnPost_addLike(t)
    \/ \E t \in Running : GoOn /\ addLikeOnPost_like(t)
    \/ \E t \in Running : GoOn /\ removeLikeOnPost_removeLike(t)

FriendsEntry(NN) ==
    \/ \E s \in Sessions : Accept /\ getFriends(s)
    \/ \E s \in Sessions : Accept /\ getRequests(s)
    \/ \E s \in Sessions, n \in NN : Accept /\ removeFriend(s, n)
    \/ \E s \in Sessions, n \in NN : Accept /\ sendFriendRequest(s, n)
    \/ \E s \in Sessions, n \in NN : Accept /\ removeFriendRequest(s, n)
    \/ \E s \in Sessions, n \in NN : Accept /\ acceptFriendRequest(s, n)
    \/ \E s \in Sessions, n \in NN : Accept /\ rejectFriendRequest(s, n)

FriendsResume ==
    \/ \E t \in Running : GoOn /\ getFriends_idsToUsernames(t)
    \/ \E t \in Running : GoOn /\ getRequests_friendRequests(t)
    \/ \E t \in Running : GoOn /\ removeFriend_removeFriend(t)
    \/ \E t \in Running : GoOn /\ sendFriendRequest_sendRequest(t)
    \/ \E t \in Running : GoOn /\ removeFriendRequest_removeRequest(t)
    \/ \E t \in Running : GoOn /\ acceptFriendRequest_acceptRequest(t)
    \/ \E t \in Running : GoOn /\ rejectFriendRequest_rejectRequest(t)

\* ---------------------------------------------- the whole route table
\* Every handler with every argument, MaxRequests requests.
Init == Start(MaxRequests)

Next ==
    \/ AccountsEntry(Names, Passwords)
    \/ AccountsResume
    \/ ProfileEntry(Names, Passwords)
    \/ ListingEntry(Names)
    \/ ListingResume
    \/ PostsEntry(Contents, OptionValues)
    \/ PostsResume
    \/ CommentsEntry(Contents, OptionValues)
    \/ CommentsResume
    \/ LikesEntry
    \/ LikesResume
    \/ FriendsEntry(Names)
    \/ FriendsResume

Spec == Init /\ [][Next]_vars

\* ---------------------------------------------- parts of the route table
\* The same handlers, a part of them at a time, with two valid user names and
\* one valid password where the accounts are not the subject; a smaller part
\* affords more requests than the whole.
UserNames == {"A", "B"}
OnePassword == {"p1"}

\* accounts and sessions
InitAccounts == Start(MaxRequests + 2)

NextAccounts ==
    \/ AccountsEntry(Names, Passwords)
    \/ AccountsResume
    \/ ProfileEntry(Names, Passwords)

SpecAccounts == InitAccounts /\ [][NextAccounts]_vars

\* posts and their authors
InitAuthors == Start(MaxRequests + 1)

NextAuthors ==
    \/ AccountsEntry(UserNames, OnePassword)
    \/ AccountsResume
    \/ PostsEntry(Contents, OptionValues)
    \/ PostsResume

SpecAuthors == InitAuthors /\ [][NextAuthors]_vars

\* posts with their comments and likes
InitPosts == Start(MaxRequests)

NextPosts ==
    \/ AccountsEntry(UserNames, OnePassword)
    \/ AccountsResume
    \/ PostsEntry(Contents, OptionValues)
    \/ PostsResume
    \/ CommentsEntry(Contents, OptionValues)
    \/ CommentsResume
    \/ LikesEntry
    \/ LikesResume

SpecPosts == InitPosts /\ [][NextPosts]_vars

\* the listing of posts
InitListing == Start(MaxRequests + 1)

NextListing ==
    \/ AccountsEntry(UserNames, OnePassword)
    \/ AccountsResume
    \/ PostsEntry(Contents, {})
    \/ PostsResume
    \/ CommentsEntry(Contents, {})
    \/ CommentsResume
    \/ LikesEntry
    \/ LikesResume
    \/ ListingEntry(Names)
    \/ ListingResume

SpecListing == InitListing /\ [][NextListing]_vars

\* friend requests and friendships
InitFriends == Start(MaxRequests + 2)

NextFriends ==
    \/ AccountsEntry(UserNames, OnePassword)
    \/ AccountsResume
    \/ FriendsEntry(Names)
    \/ FriendsResume

SpecFriends == InitFriends /\ [][NextFriends]_vars

\* ================================================================ claims
\* the request is refused with status and nothing is written
Refused(op, s, status) ==
    /\ resp' = Resp(op, s, status)
    /\ UNCHANGED <<db, session, tasks>>

\* the step completes or suspends a handler op: true of every step of the
\* first action of op
StepOf(op) == resp'.op = op \/ \E t \in BagToSet(tasks') : t.op = op

\* -------------------------------------------------------------------- C1
NotAuthor(s, id) ==
    session[s] # NoUser /\ id \in DOMAIN posts /\ posts[id].author # session[s]

\* C1: updatePost and deletePost called on an existing post by an
\* authenticated user who is not its author are refused with NotAuthorized and
\* write nothing; and whenever a post changes or disappears, the step is the
\* update or delete of a request made by the post's author.
C1_OnlyAuthorChangesPost ==
    [][/\ \A s \in Sessions, id \in PostIds : NotAuthor(s, id) =>
             /\ \A c \in Optional(Contents), o \in Optional(OptionValues) :
                   updatePost(s, id, c, o) => Refused("updatePost", s, "NotAuthorized")
             /\ deletePost(s, id) => Refused("deletePost", s, "NotAuthorized")
       /\ \A id \in DOMAIN posts :
             (id \notin DOMAIN posts' \/ posts'[id] # posts[id]) =>
                \E t \in Running :
                   /\ t.user = posts[id].author /\ t.id = id
                   /\ updatePost_update(t) \/ deletePost_delete(t)
      ]_vars

\* a user who is not the author of an existing post has just been refused
C1_Witness ==
    /\ resp.op \in {"updatePost", "deletePost"}
    /\ resp.status = "NotAuthorized"
    /\ \E id \in DOMAIN posts : NotAuthor(resp.sess, id)

\* -------------------------------------------------------------------- C5
\* C5: createCommentOnPost called by an authenticated user with a post id
\* that resolves to no post is refused with NotFound, no handler is suspended
\* and the comments are the same after the call as before.  (A string that is
\* not an id is refused before Posting is reached, and no comment is stored
\* either.)
C5_CommentOnMissingPost ==
    [][\A s \in Sessions : session[s] # NoUser =>
          \A c \in Contents, o \in Optional(OptionValues) :
             /\ \A pid \in PostIds : pid \notin DOMAIN posts =>
                   (createCommentOnPost(s, pid, c, o) =>
                       Refused("createCommentOnPost", s, "NotFound"))
             /\ createCommentOnPost(s, MalformedId, c, o) =>
                   Refused("createCommentOnPost", s, "BSONError")
      ]_vars

\* a comment on a post that has been deleted was refused
C5_Witness ==
    /\ resp.op = "createCommentOnPost" /\ resp.status = "NotFound"
    /\ session[resp.sess] # NoUser
    /\ ctr.post > 0 /\ DOMAIN posts = {}

\* -------------------------------------------------------------------- C6
AtMostOneLike ==
    \A p \in PostIds, u \in UserIds : Cardinality(LikesOf(p, u)) <= 1

\* C6: no two likes have the same post and user; and when the addLike of
\* addLikeOnPost runs while the caller's like on the post exists, the call
\* fails with ConflictError and the likes stay as they are.
C6_OneLikePerPostAndUser ==
    [][/\ AtMostOneLike /\ AtMostOneLike'
       /\ \A t \in Running :
             addLikeOnPost_addLike(t) /\ LikesOf(t.id, t.user) # {} =>
                /\ resp' = Resp("addLikeOnPost", t.sess, "ConflictError")
                /\ likes' = likes
                /\ Cardinality(LikesOf(t.id, t.user)') = 1
      ]_vars

\* the second of two likes by one user on one post was refused, one persists
C6_Witness ==
    /\ resp.op = "addLikeOnPost" /\ resp.status = "ConflictError"
    /\ \E p \in PostIds, u \in UserIds : Cardinality(LikesOf(p, u)) = 1

\* two addLikeOnPost of one user on one post are suspended between their
\* assertion and their addLike
C6_Interleaved ==
    \E t1 \in Running : t1.op = "addLikeOnPost" /\
        (tasks[t1] = 2 \/ \E t2 \in Running \ {t1} :
                             t2.op = "addLikeOnPost" /\ t2.user = t1.user /\ t2.id = t1.id)

\* -------------------------------------------------------------------- C9
\* C9: the create of createCommentOnPost and the addLike of addLikeOnPost do
\* not look at the post again: once the handler has passed its assertion, the
\* comment (the like, unless it is a duplicate) is stored with the post as
\* its parent, whether or not the post still exists.
C9_CreateAfterAssertion ==
    [][\A t \in Running :
          /\ createCommentOnPost_create(t) =>
                /\ \E c \in DOMAIN comments' \ DOMAIN comments :
                      comments'[c].item = t.id /\ Becomes(t, Commented(t, c))
                /\ UNCHANGED resp
          /\ createCommentOnPost_comment(t) =>
                resp'.op = "createCommentOnPost" /\ resp'.sess = t.sess /\ resp'.status = "ok"
          /\ addLikeOnPost_addLike(t) /\ LikesOf(t.id, t.user) = {} =>
                /\ \E l \in DOMAIN likes' \ DOMAIN likes :
                      likes'[l].item = t.id /\ Becomes(t, Liked(t, l))
                /\ UNCHANGED resp
          /\ addLikeOnPost_like(t) =>
                resp'.op = "addLikeOnPost" /\ resp'.sess = t.sess /\ resp'.status = "ok"
      ]_vars

\* a comment whose parent post does not exist, its handler has answered ok
C9_Witness ==
    /\ resp.op = "createCommentOnPost" /\ resp.status = "ok"
    /\ \E c \in DOMAIN comments :
          comments[c].item \notin DOMAIN posts /\ resp.created[1].id = c

\* a like whose parent post does not exist
C9_OrphanLike ==
    \E l \in DOMAIN likes : likes[l].item \notin DOMAIN posts

\* -------------------------------------------------------------------- C2
\* a request with session s to a handler that needs the caller's identity:
\* the twenty handlers that call Sessioning.getUser or Sessioning.end
CallWithIdentity(s) ==
    \/ StepOf("getSessionUser") /\ getSessionUser(s)
    \/ StepOf("updateUsername") /\ \E n \in Names : updateUsername(s, n)
    \/ StepOf("updatePassword") /\ \E p \in Passwords, q \in Passwords : updatePassword(s, p, q)
    \/ StepOf("deleteUser") /\ deleteUser(s)
    \/ StepOf("logOut") /\ logOut(s)
    \/ StepOf("createPost") /\ \E c \in Contents, o \in Optional(OptionValues) : createPost(s, c, o)
    \/ StepOf("updatePost") /\ \E id \in PostIdStrings, c \in Optional(Contents), o \in Optional(OptionValues) :
          updatePost(s, id, c, o)
    \/ StepOf("deletePost") /\ \E id \in PostIdStrings : deletePost(s, id)
    \/ StepOf("createCommentOnPost") /\ \E id \in PostIdStrings, c \in Contents, o \in Optional(OptionValues) :
          createCommentOnPost(s, id, c, o)
    \/ StepOf("updateCommentOnPost") /\ \E id \in CommentIdStrings, c \in Optional(Contents), o \in Optional(OptionValues) :
          updateCommentOnPost(s, id, c, o)
    \/ StepOf("deleteCommentOnPost") /\ \E id \in CommentIdStrings : deleteCommentOnPost(s, id)
    \/ StepOf("addLikeOnPost") /\ \E id \in PostIdStrings : addLikeOnPost(s, id)
    \/ StepOf("removeLikeOnPost") /\ \E id \in PostIdStrings : removeLikeOnPost(s, id)
    \/ StepOf("getFriends") /\ getFriends(s)
    \/ StepOf("getRequests") /\ getRequests(s)
    \/ StepOf("removeFriend") /\ \E n \in Names : removeFriend(s, n)
    \/ StepOf("sendFriendRequest") /\ \E n \in Names : sendFriendRequest(s, n)
    \/ StepOf("removeFriendRequest") /\ \E n \in Names : removeFriendRequest(s, n)
    \/ StepOf("acceptFriendRequest") /\ \E n \in Names : acceptFriendRequest(s, n)
    \/ StepOf("rejectFriendRequest") /\ \E n \in Names : rejectFriendRequest(s, n)

\* C2: deleteUser called with a session bound to a user deletes the user and
\* leaves the session unauthenticated; a request with an unauthenticated
\* session to a handler that needs the caller's identity fails with
\* NotAuthenticated; and an unauthenticated session becomes bound only by a
\* logIn on that session that succeeds.
C2_DeleteUserEndsSession ==
    [][\A s \in Sessions :
          /\ session[s] # NoUser /\ deleteUser(s) =>
                /\ session'[s] = NoUser
                /\ session[s] \notin DOMAIN users'
                /\ resp' = Resp("deleteUser", s, "ok")
          /\ session[s] = NoUser =>
                /\ CallWithIdentity(s) =>
                      resp'.sess = s /\ resp'.status = "NotAuthenticated"
                /\ session'[s] # NoUser =>
                      \E t \in Running :
                         t.sess = s /\ logIn_start(t) /\ resp' = Resp("logIn", s, "ok")
      ]_vars

\* deleteUser has just ended the session it was called with
C2_Witness ==
    /\ resp.op = "deleteUser" /\ resp.status = "ok"
    /\ session[resp.sess] = NoUser
    /\ ctr.user > Cardinality(DOMAIN users)

\* a later request with the session of a deleted user was refused
C2_LaterCall ==
    /\ resp.status = "NotAuthenticated" /\ resp.op = "createPost"
    /\ ctr.user = 1 /\ DOMAIN users = {}

\* -------------------------------------------------------------------- C3
SessionBinding ==
    \A s \in Sessions : session[s] \in {NoUser} \cup (1..ctr.user)

\* a session becomes bound only when the start of a logIn finds it
\* unauthenticated, and to the user that logIn authenticated; a failing
\* logIn leaves every binding as it was
BindsOnlyLoggedOut ==
    \A s \in Sessions :
       /\ session'[s] # session[s] /\ session'[s] # NoUser =>
             /\ session[s] = NoUser
             /\ \E t \in Running : t.sess = s /\ t.user = session'[s] /\ logIn_start(t)
       /\ \A t \in Running : logIn_start(t) /\ t.sess = s =>
             IF session[s] = NoUser
             THEN session'[s] = t.user /\ resp' = Resp("logIn", s, "ok")
             ELSE session' = session /\ resp' = Resp("logIn", s, "AlreadyAuthenticated")

\* C3 as amended: logIn authenticates first.  When authentication fails the
\* call fails with the authentication error, whether or not the session is
\* bound; when it succeeds and the session is bound, the call fails with
\* "already logged in"; a failing logIn leaves the binding as it was; logIn
\* binds the session only when it is unauthenticated and the credentials
\* authenticate; a session is unauthenticated or bound to one user id.
C3_LogIn ==
    [][/\ SessionBinding /\ SessionBinding'
       /\ BindsOnlyLoggedOut
       /\ \A s \in Sessions, n \in Names, p \in Passwords :
          StepOf("logIn") /\ logIn(s, n, p) =>
             IF \E u \in DOMAIN users : users[u].username = n /\ users[u].password = p
             THEN /\ \E t \in BagToSet(tasks') :
                        /\ t.op = "logIn" /\ t.sess = s /\ t.user \in DOMAIN users
                        /\ users[t.user].username = n /\ users[t.user].password = p
                        /\ tasks' = tasks (+) SetToBag({t})
                  /\ UNCHANGED <<db, session, resp>>
             ELSE Refused("logIn", s, "AuthenticationFailed")
      ]_vars

\* a logIn with valid credentials on a bound session was refused
C3_Witness ==
    /\ resp.op = "logIn" /\ resp.status = "AlreadyAuthenticated"
    /\ session[resp.sess] # NoUser

\* C3 as claimed: whenever a logIn completes on a session that is bound, it
\* fails with "already logged in" (with BindsOnlyLoggedOut and SessionBinding
\* as above).
C3_AsClaimed ==
    [][/\ SessionBinding /\ SessionBinding'
       /\ BindsOnlyLoggedOut
       /\ \A s \in Sessions : session[s] # NoUser =>
             \A n \in Names, p \in Passwords :
                StepOf("logIn") /\ logIn(s, n, p) /\ resp' # resp =>
                   Refused("logIn", s, "AlreadyAuthenticated")
      ]_vars

\* -------------------------------------------------------------------- C4
\* a request with session s to a mutating handler other than logIn, createUser
MutatingCall(s) ==
    \/ StepOf("updateUsername") /\ \E n \in Names : updateUsername(s, n)
    \/ StepOf("updatePassword") /\ \E p \in Passwords, q \in Passwords : updatePassword(s, p, q)
    \/ StepOf("deleteUser") /\ deleteUser(s)
    \/ StepOf("logOut") /\ logOut(s)
    \/ StepOf("createPost") /\ \E c \in Contents, o \in Optional(OptionValues) : createPost(s, c, o)
    \/ StepOf("updatePost") /\ \E id \in PostIdStrings, c \in Optional(Contents), o \in Optional(OptionValues) :
          updatePost(s, id, c, o)
    \/ StepOf("deletePost") /\ \E id \in PostIdStrings : deletePost(s, id)
    \/ StepOf("createCommentOnPost") /\ \E id \in PostIdStrings, c \in Contents, o \in Optional(OptionValues) :
          createCommentOnPost(s, id, c, o)
    \/ StepOf("updateCommentOnPost") /\ \E id \in CommentIdStrings, c \in Optional(Contents), o \in Optional(OptionValues) :
          updateCommentOnPost(s, id, c, o)
    \/ StepOf("deleteCommentOnPost") /\ \E id \in CommentIdStrings : deleteCommentOnPost(s, id)
    \/ StepOf("addLikeOnPost") /\ \E id \in PostIdStrings : addLikeOnPost(s, id)
    \/ StepOf("removeLikeOnPost") /\ \E id \in PostIdStrings : removeLikeOnPost(s, id)
    \/ StepOf("removeFriend") /\ \E n \in Names : removeFriend(s, n)
    \/ StepOf("sendFriendRequest") /\ \E n \in Names : sendFriendRequest(s, n)
    \/ StepOf("removeFriendRequest") /\ \E n \in Names : removeFriendRequest(s, n)
    \/ StepOf("acceptFriendRequest") /\ \E n \in Names : acceptFriendRequest(s, n)
    \/ StepOf("rejectFriendRequest") /\ \E n \in Names : rejectFriendRequest(s, n)

MutatingOps ==
    {"createPost", "updatePost", "deletePost", "createCommentOnPost", "updateCommentOnPost",
     "deleteCommentOnPost", "addLikeOnPost", "removeLikeOnPost", "removeFriend",
     "sendFriendRequest", "removeFriendRequest", "acceptFriendRequest",
     "rejectFriendRequest"}

\* C4: a request with an unauthenticated session to a mutating handler other
\* than logIn and createUser is refused with NotAuthenticated: nothing is
\* written, no handler is suspended; so every suspended mutating handler
\* carries the user its session was bound to.
C4_MutationNeedsSession ==
    [][/\ \A s \in Sessions : session[s] = NoUser /\ MutatingCall(s) =>
             /\ resp'.sess = s /\ resp'.status = "NotAuthenticated"
             /\ UNCHANGED <<db, session, tasks>>
       /\ \A t \in BagToSet(tasks') : t.op \in MutatingOps => t.user # NoUser
      ]_vars

\* a deletePost with an unauthenticated session was refused, the posts exist
C4_Witness ==
    /\ resp.op = "deletePost" /\ resp.status = "NotAuthenticated"
    /\ session[resp.sess] = NoUser
    /\ DOMAIN posts # {}

\* -------------------------------------------------------------------- C7
Range(f) == {f[i] : i \in DOMAIN f}
Pending(a, b) == <<a, b>> \in requests
PairNone(a, b) == ~IsFriends(a, b) /\ ~Pending(a, b) /\ ~Pending(b, a)

\* C7: a request sent between two users in state none becomes pending;
\* accepting a pending request makes the two friends, each among the friends
\* of the other, with no request pending between them; rejecting it, or its
\* sender removing it, returns the two to none.  getFriends lists the friends
\* of the caller, by name.
C7_RequestLifecycle ==
    [][/\ \A t \in Running :
             /\ sendFriendRequest_sendRequest(t) /\ PairNone(t.user, t.id) =>
                   /\ resp' = Named(Resp("sendFriendRequest", t.sess, "ok"), t.arg)
                   /\ Pending(t.user, t.id)' /\ ~IsFriends(t.user, t.id)'
                   /\ t.user # t.id => ~Pending(t.id, t.user)'
             /\ acceptFriendRequest_acceptRequest(t) /\ Pending(t.id, t.user) =>
                   /\ resp' = Named(Resp("acceptFriendRequest", t.sess, "ok"), t.arg)
                   /\ IsFriends(t.id, t.user)'
                   /\ t.id \in Range(Friending_getFriends(t.user))'
                   /\ t.user \in Range(Friending_getFriends(t.id))'
                   /\ ~Pending(t.id, t.user)' /\ ~Pending(t.user, t.id)'
             /\ rejectFriendRequest_rejectRequest(t) /\ Pending(t.id, t.user) =>
                   /\ resp' = Named(Resp("rejectFriendRequest", t.sess, "ok"), t.arg)
                   /\ PairNone(t.id, t.user)'
             /\ removeFriendRequest_removeRequest(t) /\ Pending(t.user, t.id) =>
                   /\ resp' = Named(Resp("removeFriendRequest", t.sess, "ok"), t.arg)
                   /\ PairNone(t.user, t.id)'
             /\ getFriends_idsToUsernames(t) =>
                   /\ resp'.op = "getFriends" /\ Len(resp'.names) = Len(t.ids)
                   /\ \A i \in DOMAIN t.ids :
                         t.ids[i] \in DOMAIN users => resp'.names[i] = users[t.ids[i]].username
       /\ \A s \in Sessions :
             StepOf("getFriends") /\ session[s] # NoUser /\ getFriends(s) =>
                \E t2 \in BagToSet(tasks') :
                   /\ t2.op = "getFriends" /\ t2.sess = s
                   /\ tasks' = tasks (+) SetToBag({t2})
                   /\ Range(t2.ids) = {f \in UserIds : IsFriends(session[s], f)}
      ]_vars

\* two distinct users are friends, no request is pending, and getFriends has
\* just answered one of them with the name of the other
C7_Witness ==
    /\ resp.op = "getFriends" /\ resp.status = "ok"
    /\ session[resp.sess] \in DOMAIN users
    /\ requests = {}
    /\ \E f \in DOMAIN users :
          /\ f # session[resp.sess] /\ IsFriends(f, session[resp.sess])
          /\ resp.names = <<users[f].username>>

\* a request between two distinct users was rejected and they are in none
C7_Rejected ==
    /\ resp.op \in {"rejectFriendRequest"} /\ resp.status = "ok"
    /\ \A a \in UserIds, b \in UserIds : PairNone(a, b)

\* ------------------------------------------------------------------- C10
Unmoved(op, s) ==
    /\ resp'.op = op /\ resp'.sess = s /\ resp'.status # "ok"
    /\ UNCHANGED <<requests, friends>>

\* C10: a friending call in a state of the pair that has no transition for
\* it fails and leaves requests and friendships as they are: sendRequest
\* unless the pair is in none, acceptRequest and rejectRequest unless a
\* request from the named user to the caller is pending, removeRequest unless
\* a request from the caller to the named user is pending, removeFriend unless
\* the two are friends.
C10_IllegalTransitionsFail ==
    [][\A t \in Running :
          /\ sendFriendRequest_sendRequest(t) /\ ~PairNone(t.user, t.id) =>
                Unmoved("sendFriendRequest", t.sess)
          /\ acceptFriendRequest_acceptRequest(t) /\ ~Pending(t.id, t.user) =>
                Unmoved("acceptFriendRequest", t.sess)
          /\ rejectFriendRequest_rejectRequest(t) /\ ~Pending(t.id, t.user) =>
                Unmoved("rejectFriendRequest", t.sess)
          /\ removeFriendRequest_removeRequest(t) /\ ~Pending(t.user, t.id) =>
                Unmoved("removeFriendRequest", t.sess)
          /\ removeFriend_removeFriend(t) /\ ~IsFriends(t.user, t.id) =>
                Unmoved("removeFriend", t.sess)
      ]_vars

\* the sender of a pending request has named its recipient, an existing
\* user, in acceptFriendRequest or rejectFriendRequest, and Friending has
\* refused the call: the request is still pending
C10_Witness ==
    /\ resp.op \in {"acceptFriendRequest", "rejectFriendRequest"}
    /\ resp.status # "ok"
    /\ session[resp.sess] \in DOMAIN users
    /\ \E b \in DOMAIN users :
          /\ b # session[resp.sess] /\ users[b].username = resp.arg
          /\ Pending(session[resp.sess], b) /\ ~Pending(b, session[resp.sess])

\* -------------------------------------------------------------------- C8
LikesOn(p) == {l \in DOMAIN likes : likes[l].item = p}
CommentsOn(p) == {c \in DOMAIN comments : comments[c].item = p}

\* e is post p as listed, with the likes counted as n and the comments as now
Carries(e, p, n) ==
    /\ e.id = p.id /\ e.author = p.author /\ e.content = p.content
    /\ e.likes = n
    /\ {c.id : c \in Range(e.comments)} = CommentsOn(p.id)
    /\ Len(e.comments) = Cardinality(CommentsOn(p.id))
    /\ \A c \in Range(e.comments) :
          c.item = p.id /\ c.content = comments[c.id].content
                        /\ c.author = comments[c.id].author
    /\ n = 0 /\ CommentsOn(p.id) = {} => e.likes = 0 /\ e.comments = <<>>

\* C8: createPost by user A with content c stores a new post of A with c
\* that no like and no comment has as its parent, and answers with the post,
\* the author by name.  getPosts with the name of a user fetches the posts
\* whose author is that user (all posts when no author is named), shows each
\* author by name, counts for each post the likes whose parent it is (0 when
\* there is none), and returns the post with that count and with the comments
\* whose parent it is (<<>> when there is none).
C8_Listing ==
    [][/\ \A s \in Sessions, c \in Contents, o \in Optional(OptionValues) :
             StepOf("createPost") /\ session[s] # NoUser /\ createPost(s, c, o) =>
                \A p \in {ctr.post + 1} :
                   /\ \E t2 \in BagToSet(tasks') :
                         /\ t2.op = "createPost" /\ t2.sess = s /\ t2.id = p
                         /\ tasks' = tasks (+) SetToBag({t2})
                   /\ DOMAIN posts' = DOMAIN posts \cup {p} /\ p \notin DOMAIN posts
                   /\ posts'[p].author = session[s] /\ posts'[p].content = c
                   /\ \A l \in DOMAIN likes' : likes'[l].item # p
                   /\ \A k \in DOMAIN comments' : comments'[k].item # p
       /\ \A t \in Running : createPost_post(t) =>
             /\ resp'.op = "createPost" /\ resp'.sess = t.sess /\ resp'.status = "ok"
             /\ resp'.created[1].id = t.id /\ resp'.created[1].content = t.content
             /\ t.user \in DOMAIN users =>
                   resp'.created[1].author = users[t.user].username
       /\ \A n \in Names : StepOf("getPosts") /\ getPosts(n) =>
             IF n = ""
             THEN \E t2 \in BagToSet(tasks') :
                     /\ t2.op = "getPosts" /\ t2.pc = "posts"
                     /\ tasks' = tasks (+) SetToBag({t2})
                     /\ {d.id : d \in Range(t2.list)} = DOMAIN posts
                     /\ \A d \in Range(t2.list) : d = PostDoc(d.id)
             ELSE IF \E u \in DOMAIN users : users[u].username = n
             THEN \E t2 \in BagToSet(tasks') :
                     /\ t2.op = "getPosts" /\ t2.pc = "getByAuthor" /\ t2.arg = n
                     /\ t2.id \in DOMAIN users /\ users[t2.id].username = n
                     /\ tasks' = tasks (+) SetToBag({t2})
             ELSE resp'.op = "getPosts" /\ resp'.status = "NotFound" /\ tasks' = tasks
       /\ \A t \in Running :
             /\ getPosts_getByAuthor(t) =>
                   \E t2 \in BagToSet(tasks') :
                      /\ Becomes(t, t2) /\ t2.arg = t.arg
                      /\ {d.id : d \in Range(t2.list)} =
                            {p \in DOMAIN posts : posts[p].author = t.id}
                      /\ \A d \in Range(t2.list) : d = PostDoc(d.id)
             /\ getPosts_posts(t) /\ t.list # <<>> =>
                   \E t2 \in BagToSet(tasks') :
                      /\ Becomes(t, t2) /\ Len(t2.fmt) = Len(t.list) /\ t2.arg = t.arg
                      /\ \A i \in DOMAIN t.list :
                            /\ t2.fmt[i].id = t.list[i].id
                            /\ t2.fmt[i].content = t.list[i].content
                            /\ t.list[i].author \in DOMAIN users =>
                                  t2.fmt[i].author = users[t.list[i].author].username
             /\ getPosts_posts(t) /\ t.list = <<>> =>
                   resp' = Named(Resp("getPosts", NoUser, "ok"), t.arg)
             /\ getPosts_getNumLikes(t) =>
                   \E t2 \in BagToSet(tasks') :
                      /\ Becomes(t, t2) /\ t2.fmt = t.fmt /\ t2.acc = t.acc
                      /\ t2.n = Cardinality(LikesOn(Head(t.fmt).id))
                      /\ (\A l \in DOMAIN likes : likes[l].item # Head(t.fmt).id) => t2.n = 0
             /\ getPosts_getByItem(t) =>
                   IF Tail(t.fmt) = <<>>
                   THEN /\ resp'.op = "getPosts" /\ resp'.status = "ok"
                        /\ resp'.arg = t.arg
                        /\ Len(resp'.posts) = Len(t.acc) + 1
                        /\ \A i \in DOMAIN t.acc : resp'.posts[i] = t.acc[i]
                        /\ Carries(resp'.posts[Len(t.acc) + 1], Head(t.fmt), t.n)
                   ELSE \E t2 \in BagToSet(tasks') :
                           /\ Becomes(t, t2) /\ t2.fmt = Tail(t.fmt)
                           /\ t2.acc = Append(t.acc, t2.acc[Len(t.acc) + 1])
                           /\ Carries(t2.acc[Len(t.acc) + 1], Head(t.fmt), t.n)
      ]_vars

\* getPosts with the name of an author has returned the author's post, which
\* has no like and no comment: the author by name, likes 0, no comments
C8_Witness ==
    /\ resp.op = "getPosts" /\ resp.status = "ok" /\ resp.arg \in UserNames
    /\ \E i \in DOMAIN resp.posts :
          /\ resp.posts[i].likes = 0 /\ resp.posts[i].comments = <<>>
          /\ resp.posts[i].content = "hello"
          /\ resp.posts[i].id \in DOMAIN posts
          /\ posts[resp.posts[i].id].author \in DOMAIN users
          /\ users[posts[resp.posts[i].id].author].username = resp.arg
          /\ resp.posts[i].author = resp.arg
          /\ LikesOn(resp.posts[i].id) = {} /\ CommentsOn(resp.posts[i].id) = {}

\* getPosts has returned a post with its like and its comment
C8_Enriched ==
    /\ resp.op = "getPosts"
    /\ \E i \in DOMAIN resp.posts :
          resp.posts[i].likes = 1 /\ Len(resp.posts[i].comments) = 1

====
